---- MODULE Spec2Model ----
(***************************************************************************)
(* A model of rjm_raytrace.h (BVH build and packet traversal) and of       *)
(* rjm_texbleed.h (two-pass distance sweep and copy-back).                 *)
(*                                                                         *)
(* Numbers.  Coordinates are small integers and ray directions have        *)
(* components in {-1, 0, 1}, so every float operation the code performs    *)
(* on them is exact; every non-zero determinant of the triangle test is   *)
(* 16 or -16, so the division is exact too.  Quotients (t, u, v,           *)
(* visibility, opacity) are kept as                                        *)
(* exact rationals <<num, den>> with den > 0.  The slab test works on      *)
(* IEEE values: finite numbers, the two infinities and NaN, with the SSE   *)
(* rules for min, max and the comparisons.                                 *)
(***************************************************************************)
EXTENDS Integers, Sequences, FiniteSets, TLC

\* ------------------------------------------------------------------------
\* Program constants.
RJM_MAX_RAYTREE_LEAF_TRIS == 4
RJM_PACKET_SIZE == 64
RJM_RAYTRACE_FIRSTHIT == -1
BLEED_THRESHOLD == 128
\* Stand-in for FLT_MAX: larger than every coordinate of the model.
FLT_MAX == 1000000
\* int stack[64]
StackInts == 64
\* Width of int, the type of triCount and firstLeaf.
IntBits == 32

\* ------------------------------------------------------------------------
\* Bounds of the model.
MaxTris == 9          \* build: triangle counts 0..MaxTris
GridX == 8            \* vertex lattice (0..GridX) x (0..GridY) x (0..GridZ)
GridY == 4
GridZ == 3
MaxPixels == 6        \* bleed: every image of at most MaxPixels pixels
BigW == 14            \* bleed: the sparse images are BigW x BigH
BigH == 8

\* ------------------------------------------------------------------------
\* Geometry store: the caller's vertex array and triangle array.
\* The vertex array is the lattice, vertex index VIdx(p) holding point p.
VIdx(p) == p[1] + (GridX + 1) * p[2] + (GridX + 1) * (GridY + 1) * p[3]

NumVtx == (GridX + 1) * (GridY + 1) * (GridZ + 1)

vtxs == [v \in 0..(NumVtx - 1) |->
           << v % (GridX + 1),
              (v \div (GridX + 1)) % (GridY + 1),
              v \div ((GridX + 1) * (GridY + 1)) >>]

Tri(p, q, r) == << VIdx(p), VIdx(q), VIdx(r) >>

Range(f) == { f[x] : x \in DOMAIN f }

\* Componentwise float min / max of two vec3 (_mm_min_ps, _mm_max_ps on
\* ordinary numbers).
Min2(a, b) == IF a < b THEN a ELSE b
Max2(a, b) == IF a > b THEN a ELSE b
VecMin(a, b) == << Min2(a[1], b[1]), Min2(a[2], b[2]), Min2(a[3], b[3]) >>
VecMax(a, b) == << Max2(a[1], b[1]), Max2(a[2], b[2]), Max2(a[3], b[3]) >>

\* ------------------------------------------------------------------------
\* rjm_raytree_partition: Lomuto partition of leafTris[left..right] around
\* the key of the last element; the key of a triangle is the coordinate of
\* its first vertex on the axis.
TriKey(tris, t, axis) == vtxs[tris[t][1]][axis + 1]

\* RJM_RT_SWAP with the temporary forgotten: X is overwritten, Y keeps its value.
SwapAt_NoTmp(f, a, b) == [f EXCEPT ![a] = f[b]]

\* RJM_RT_SWAP on two elements of one array.
SwapAt(f, a, b) == [f EXCEPT ![a] = f[b], ![b] = f[a]]

RECURSIVE PartitionLoop(_, _, _, _, _, _, _)
PartitionLoop(tris, lt, i, dest, right, split, axis) ==
    IF i >= right
    THEN << SwapAt(lt, dest, right), dest >>
    ELSE IF TriKey(tris, lt[i], axis) < split
         THEN PartitionLoop(tris, SwapAt(lt, dest, i), i + 1, dest + 1,
                            right, split, axis)
         ELSE PartitionLoop(tris, lt, i + 1, dest, right, split, axis)

rjm_raytree_partition(tris, lt, left, right, axis) ==
    PartitionLoop(tris, lt, left, left, right,
                  TriKey(tris, lt[right], axis), axis)

\* rjm_raytree_quickselect: narrows [left, right] until the pivot lands on
\* mid.  Returns the permuted leafTris.
RECURSIVE rjm_raytree_quickselect(_, _, _, _, _, _)
rjm_raytree_quickselect(tris, lt, left, right, mid, axis) ==
    LET pr    == rjm_raytree_partition(tris, lt, left, right, axis)
        lt2   == pr[1]
        pivot == pr[2]
    IN  IF mid < pivot
        THEN rjm_raytree_quickselect(tris, lt2, left, pivot - 1, mid, axis)
        ELSE IF mid > pivot
             THEN rjm_raytree_quickselect(tris, lt2, pivot + 1, right, mid, axis)
             ELSE lt2

\* ------------------------------------------------------------------------
\* rjm_buildraynodes.  The bounds loop: min / max over the three vertices
\* of each triangle of the range, starting from (FLT_MAX, -FLT_MAX).
RECURSIVE BoundsLoop(_, _, _, _, _, _)
BoundsLoop(tris, lt, triIndex, n, triCount, acc) ==
    IF n >= triCount
    THEN acc
    ELSE LET idx == tris[lt[triIndex + n]]
             p0  == vtxs[idx[1]]
             p1  == vtxs[idx[2]]
             p2  == vtxs[idx[3]]
         IN  BoundsLoop(tris, lt, triIndex, n + 1, triCount,
                 [bmin |-> VecMin(VecMin(VecMin(acc.bmin, p0), p1), p2),
                  bmax |-> VecMax(VecMax(VecMax(acc.bmax, p0), p1), p2)])

\* The bounds loop started at n = 1: the first triangle of the range is skipped.
CalcBounds_SkipFirst(tris, lt, triIndex, triCount) ==
    BoundsLoop(tris, lt, triIndex, 1, triCount,
               [bmin |-> << FLT_MAX, FLT_MAX, FLT_MAX >>,
                bmax |-> << -FLT_MAX, -FLT_MAX, -FLT_MAX >>])

CalcBounds(tris, lt, triIndex, triCount) ==
    BoundsLoop(tris, lt, triIndex, 0, triCount,
               [bmin |-> << FLT_MAX, FLT_MAX, FLT_MAX >>,
                bmax |-> << -FLT_MAX, -FLT_MAX, -FLT_MAX >>])

\* Pick longest axis: a later axis only when strictly longer.
LongestAxis(b) ==
    LET bdim == [a \in 0..2 |-> b.bmax[a + 1] - b.bmin[a + 1]]
        a1   == IF bdim[1] > bdim[0] THEN 1 ELSE 0
    IN  IF bdim[2] > bdim[a1] THEN 2 ELSE a1

\* triCount >> 2 in place of triCount >> 1.
LeftCount_Quarter(triCount) == triCount \div 4

\* int leftCount = triCount >> 1
LeftCount(triCount) == triCount \div 2

\* The tree under construction: t.leafTris, t.nodes, t.leafs are written,
\* t.asserts records whether every assert of the build held so far.
RECURSIVE rjm_buildraynodes(_, _, _, _)
rjm_buildraynodes(t, nodeIdx, triIndex, triCount) ==
    IF nodeIdx >= t.firstLeaf
    THEN [t EXCEPT
            !.asserts = @ /\ (triCount <= RJM_MAX_RAYTREE_LEAF_TRIS),
            !.leafs[nodeIdx - t.firstLeaf] =
                [triIndex |-> triIndex, triCount |-> triCount]]
    ELSE LET box       == CalcBounds(t.tris, t.leafTris, triIndex, triCount)
             axis      == LongestAxis(box)
             leftCount == LeftCount(triCount)
             t1 == [t EXCEPT
                      !.nodes[nodeIdx] = box,
                      !.asserts = @ /\ (triCount > 0),
                      !.leafTris = rjm_raytree_quickselect(t.tris, @,
                                      triIndex, triIndex + triCount - 1,
                                      triIndex + leftCount, axis)]
             t2 == rjm_buildraynodes(t1, nodeIdx * 2 + 1, triIndex, leftCount)
         IN  rjm_buildraynodes(t2, nodeIdx * 2 + 2, triIndex + leftCount,
                               triCount - leftCount)

\* rjm_buildraytree: the leaf count is the smallest power of two with
\* leafCount * K >= triCount.
RECURSIVE LeafCountLoop(_, _)
LeafCountLoop(leafCount, triCount) ==
    IF leafCount * RJM_MAX_RAYTREE_LEAF_TRIS < triCount
    THEN LeafCountLoop(leafCount * 2, triCount)
    ELSE leafCount

NoBox == [bmin |-> << 0, 0, 0 >>, bmax |-> << 0, 0, 0 >>]
NoLeaf == [triIndex |-> 0, triCount |-> 0]

\* The tree as the caller fills it in (triCount, tris; vtxs is the lattice).
NewTree(tris, triCount) ==
    [triCount |-> triCount, tris |-> tris, firstLeaf |-> -1,
     leafTris |-> << >>, nodes |-> << >>, leafs |-> << >>,
     asserts |-> TRUE]

rjm_buildraytree(tree) ==
    LET leafCount == LeafCountLoop(1, tree.triCount)
        t0 == [tree EXCEPT
                 !.firstLeaf = leafCount - 1,
                 !.nodes = [i \in 0..(leafCount - 2) |-> NoBox],
                 !.leafs = [i \in 0..(leafCount - 1) |-> NoLeaf],
                 !.leafTris = [n \in 0..(tree.triCount - 1) |-> n]]
    IN  rjm_buildraynodes(t0, 0, 0, tree.triCount)

\* rjm_freeraytree: releases the three arrays and resets firstLeaf.
rjm_freeraytree(tree) ==
    [tree EXCEPT !.nodes = << >>, !.leafs = << >>, !.leafTris = << >>,
                 !.firstLeaf = -1]

\* ------------------------------------------------------------------------
\* Numbers of rjm_raytrace.
\* Exact rationals << num, den >>, den > 0.
Rat(n) == << n, 1 >>
RLt(a, b) == a[1] * b[2] < b[1] * a[2]
RLe(a, b) == a[1] * b[2] <= b[1] * a[2]
REq(a, b) == a[1] * b[2] = b[1] * a[2]
RMul(a, b) == << a[1] * b[1], a[2] * b[2] >>
ROneMinus(a) == << a[2] - a[1], a[2] >>

\* IEEE values of the slab test.
Fin(n) == [k |-> "fin", v |-> n]
PInf == [k |-> "inf", v |-> 1]
NInf == [k |-> "inf", v |-> -1]
NaN == [k |-> "nan", v |-> 0]

\* a < b on IEEE values: false when either is NaN.
FLt(a, b) ==
    /\ a.k # "nan"
    /\ b.k # "nan"
    /\ IF a.k = "fin" /\ b.k = "fin" THEN a.v < b.v
       ELSE IF a.k = "inf" /\ b.k = "inf" THEN a.v < b.v
       ELSE IF a.k = "inf" THEN a.v < 0
       ELSE b.v > 0

\* _mm_min_ps(a, b) = a < b ? a : b and _mm_max_ps(a, b) = a > b ? a : b:
\* the second operand comes back when either is NaN.
FMin(a, b) == IF FLt(a, b) THEN a ELSE b
FMax(a, b) == IF FLt(b, a) THEN a ELSE b

\* _mm_cmpge_ps(a, b) and _mm_cmple_ps(a, b): false when either is NaN.
FGe(a, b) == a.k # "nan" /\ b.k # "nan" /\ ~FLt(a, b)
FLe(a, b) == a.k # "nan" /\ b.k # "nan" /\ ~FLt(b, a)

\* _mm_cmple_ps(a, q) for an IEEE value a and a finite rational q.
FLeRat(a, q) ==
    IF a.k = "fin" THEN a.v * q[2] <= q[1]
    ELSE a.k = "inf" /\ a.v < 0

\* 1.0f / d for d in {-1, 0, 1}: relies on IEEE infinity.
FInv(d) == IF d = 0 THEN PInf ELSE Fin(d)

\* n * i for a finite n and i = 1.0f / d: 0 * inf is NaN.
FMulInv(n, i) ==
    IF i.k = "fin" THEN Fin(n * i.v)
    ELSE IF n = 0 THEN NaN
    ELSE IF (n > 0) = (i.v > 0) THEN PInf
    ELSE NInf

\* ------------------------------------------------------------------------
\* Ray-triangle intersection of one lane (Moller-Trumbore), lines 322-381.
\* org, dir: the lane's origin and direction; prev: the lane's maxt.
\* u, v, t are numerator / det; with det = 0 they are infinities or NaN
\* and every comparison of the hit test that involves them is false.
Cross(a, b) == << a[2] * b[3] - a[3] * b[2],
                  a[3] * b[1] - a[1] * b[3],
                  a[1] * b[2] - a[2] * b[1] >>
Dot(a, b) == a[1] * b[1] + a[2] * b[2] + a[3] * b[3]
Sub(a, b) == << a[1] - b[1], a[2] - b[2], a[3] - b[3] >>

TriIsect(v0, v1, v2, org, dir, prev) ==
    LET e01  == Sub(v1, v0)
        e02  == Sub(v2, v0)
        pvec == Cross(dir, e02)
        det  == Dot(e01, pvec)
        tvec == Sub(org, v0)
        qvec == Cross(tvec, e01)
        sg   == IF det < 0 THEN -1 ELSE 1
        den  == sg * det
        un   == sg * Dot(tvec, pvec)
        vn   == sg * Dot(dir, qvec)
        tn   == sg * Dot(e02, qvec)
    IN  IF det = 0
        THEN [isect |-> FALSE, t |-> Rat(0), u |-> Rat(0), v |-> Rat(0)]
        ELSE [isect |-> /\ un >= 0
                        /\ un <= den
                        /\ vn >= 0
                        /\ un + vn <= den
                        /\ tn >= 0
                        /\ RLe(<< tn, den >>, prev),
              t |-> << tn, den >>,
              u |-> << un, den >>,
              v |-> << vn, den >>]

\* Ray-box slab test of one lane, lines 434-462.
\* hit if: (tmax >= 0) && (tmax >= tmin) && (tmin <= maxt)
SlabIsect(node, org, inv, prevt) ==
    LET d0 == [a \in 1..3 |-> FMulInv(node.bmin[a] - org[a], inv[a])]
        d1 == [a \in 1..3 |-> FMulInv(node.bmax[a] - org[a], inv[a])]
        v0 == [a \in 1..3 |-> FMin(d0[a], d1[a])]
        v1 == [a \in 1..3 |-> FMax(d0[a], d1[a])]
        tmin == FMax(v0[1], FMax(v0[2], v0[3]))
        tmax == FMin(v1[1], FMin(v1[2], v1[3]))
    IN  /\ FGe(tmax, Fin(0))
        /\ FGe(tmax, tmin)
        /\ FLeRat(tmin, prevt)

\* ------------------------------------------------------------------------
\* rjm_texbleed.  The grid is `storage`, (w+2) x (h+2) cells of TbPoint;
\* the cell of pixel (x, y) is storage[GridCell(gstride, x, y)].
EmptyCell == 9999

GridCell(gstride, x, y) == (gstride + 1) + y * gstride + x

\* bleedcompare(p, gstride, offsetx, offsety) on the cell at index p.
bleedcompare(st, p, gstride, offsetx, offsety) ==
    LET o     == st[p + offsety * gstride + offsetx]
        other == [dx |-> o.dx + offsetx, dy |-> o.dy + offsety]
        odist == other.dx * other.dx + other.dy * other.dy
        pdist == st[p].dx * st[p].dx + st[p].dy * st[p].dy
    IN  IF odist < pdist THEN [st EXCEPT ![p] = other] ELSE st

\* The body of an x loop: the bleedcompare calls on the cell at index p,
\* one per neighbour of `offs`, in order.
RECURSIVE CompareAll(_, _, _, _)
CompareAll(st, p, gstride, offs) ==
    IF offs = << >>
    THEN st
    ELSE CompareAll(bleedcompare(st, p, gstride, Head(offs)[1], Head(offs)[2]),
                    p, gstride, Tail(offs))

\* The neighbours compared at each cell by the four x loops.
Pass0Fwd == << << -1, 0 >>, << 0, -1 >>, << -1, -1 >>, << 1, -1 >> >>
Pass0Bwd == << << 1, 0 >> >>
Pass1Bwd == << << 1, 0 >>, << 0, 1 >>, << -1, 1 >>, << 1, 1 >> >>
Pass1Fwd == << << -1, 0 >> >>

\* The threshold test with >= in place of >.
IsSolid_AtThreshold(alpha) == alpha >= BLEED_THRESHOLD

\* pix[ac] > BLEED_THRESHOLD
IsSolid(alpha) == alpha > BLEED_THRESHOLD

PixAt(x, y, pixstride, rowstride) == y * rowstride + x * pixstride

\* Initialize to empty, then fill in the solid pixels.
SeedGrid(px, w, h, ac, pixstride, rowstride) ==
    LET gstride == w + 2
    IN  [c \in 0..(gstride * (h + 2) - 1) |->
           LET x == (c % gstride) - 1
               y == (c \div gstride) - 1
           IN  IF /\ x >= 0 /\ x < w /\ y >= 0 /\ y < h
                  /\ IsSolid(px[PixAt(x, y, pixstride, rowstride) + ac])
               THEN [dx |-> 0, dy |-> 0]
               ELSE [dx |-> EmptyCell, dy |-> EmptyCell]]

\* Copy the RGB over: dst[n] = src[n] for n = 0 .. pixstride-1.
RECURSIVE CopyBytes(_, _, _, _, _)
CopyBytes(px, src, dst, n, pixstride) ==
    IF n >= pixstride
    THEN px
    ELSE CopyBytes([px EXCEPT ![dst + n] = px[src + n]], src, dst, n + 1,
                   pixstride)

\* The read-back without the final dst[ac] = 0.
ReadBackPixel_KeepAlpha(px, st, w, ac, pixstride, rowstride, x, y) ==
    LET p   == st[GridCell(w + 2, x, y)]
        src == PixAt(x + p.dx, y + p.dy, pixstride, rowstride)
        dst == PixAt(x, y, pixstride, rowstride)
    IN  IF px[dst + ac] = 0
        THEN CopyBytes(px, src, dst, 0, pixstride)
        ELSE px

\* The body of the read-back loops for pixel (x, y): a pixel with alpha 0
\* takes every byte of the pixel its grid cell points to, then dst[ac] = 0.
ReadBackPixel(px, st, w, ac, pixstride, rowstride, x, y) ==
    LET p   == st[GridCell(w + 2, x, y)]
        src == PixAt(x + p.dx, y + p.dy, pixstride, rowstride)
        dst == PixAt(x, y, pixstride, rowstride)
    IN  IF px[dst + ac] = 0
        THEN [CopyBytes(px, src, dst, 0, pixstride) EXCEPT ![dst + ac] = 0]
        ELSE px

AnySolid(px, w, h, ac, pixstride, rowstride) ==
    \E x \in 0..(w - 1), y \in 0..(h - 1) :
        IsSolid(px[PixAt(x, y, pixstride, rowstride) + ac])

\* ------------------------------------------------------------------------
\* State.
VARIABLES
    pc,         \* where the program is
    tree,       \* RjmRayTree
    rays,       \* the caller's RjmRay array, 0-based
    cutoff,     \* rational; negative selects first-hit mode
    filter,     \* the RjmRayFilterFn (or NULL)
    pkt,        \* the lane arrays rx .. rayidx of rjm_raytrace
    stack,      \* int stack[64], as the sequence below top
    base,       \* locals of rjm_raytrace
    next,
    nodeIdx,
    ncur,
    idxs,
    triCount,
    rays0,      \* history: the ray array as passed in
    filterLog,  \* history: the filter calls of this rjm_raytrace call
    pushed,     \* history: one record per stacked (node, count) pair
    entered,    \* history: the nodes entered by the running packet, in order
    pixels,     \* the pixel buffer of rjm_texbleed
    img,        \* w, h, ac, pixstride, rowstride of the rjm_texbleed call
    storage,    \* the TbPoint grid of rjm_texbleed
    bleedY,     \* the loop counters y and x of the running loop of
    bleedX,     \*   rjm_texbleed
    pixels0     \* history: the pixel buffer as passed in

treeVars  == << tree >>
traceVars == << rays, cutoff, filter, pkt, stack, base, next, nodeIdx, ncur,
                idxs, triCount, rays0, filterLog, pushed, entered >>
bleedVars == << pixels, img, storage, bleedY, bleedX, pixels0 >>
vars == << pc, treeVars, traceVars, bleedVars >>

\* Values of the variables a program does not use.
IdleTrace ==
    /\ rays = << >> /\ rays0 = << >> /\ cutoff = << 0, 1 >>
    /\ filter = [null |-> TRUE, id |-> 0]
    /\ pkt = << >> /\ stack = << >> /\ pushed = << >> /\ filterLog = << >>
    /\ base = 0 /\ next = 0 /\ nodeIdx = 0 /\ ncur = 0
    /\ idxs = 0 /\ triCount = 0
    /\ entered = << >>

IdleBleed ==
    /\ pixels = << >> /\ pixels0 = << >> /\ storage = << >> /\ bleedY = 0 /\ bleedX = 0
    /\ img = [w |-> 0, h |-> 0, ac |-> 0, pixstride |-> 0, rowstride |-> 0]

\* ------------------------------------------------------------------------
\* The build program: a caller fills in a tree, builds it, frees it.
BuildPool ==
    << Tri(<< 0, 0, 0 >>, << 1, 0, 0 >>, << 0, 1, 0 >>),
       Tri(<< 3, 0, 0 >>, << 4, 0, 0 >>, << 3, 1, 0 >>),
       Tri(<< 0, 2, 0 >>, << 1, 2, 0 >>, << 0, 3, 0 >>),
       Tri(<< 0, 0, 2 >>, << 1, 0, 2 >>, << 0, 1, 2 >>),
       Tri(<< 1, 1, 1 >>, << 0, 0, 0 >>, << 2, 0, 1 >>) >>

\* Triangle slot t takes one of two triangles of the pool.
BuildSlot(t, k) == BuildPool[((t + k) % Len(BuildPool)) + 1]

BuildInputs ==
    UNION { { NewTree([t \in 0..(T - 1) |-> BuildSlot(t, ks[t])], T) :
                ks \in [0..(T - 1) -> {0, 2}] } :
            T \in 0..MaxTris }

InitBuild ==
    /\ pc = "input"
    /\ tree \in BuildInputs
    /\ IdleTrace
    /\ IdleBleed

BuildRayTree ==
    /\ pc = "input"
    /\ tree' = rjm_buildraytree(tree)
    /\ pc' = "built"
    /\ UNCHANGED << traceVars, bleedVars >>

FreeRayTree ==
    /\ pc \in {"built", "freed"}
    /\ tree' = rjm_freeraytree(tree)
    /\ pc' = "freed"
    /\ UNCHANGED << traceVars, bleedVars >>

NextBuild == BuildRayTree \/ FreeRayTree

SpecBuild == InitBuild /\ [][NextBuild]_vars

\* ------------------------------------------------------------------------
\* Properties of the built tree.
LeafCount == tree.firstLeaf + 1

\* The leaf slots below node i of the implicit tree.
RECURSIVE SubtreeLeaves(_)
SubtreeLeaves(i) ==
    IF i >= tree.firstLeaf
    THEN { i - tree.firstLeaf }
    ELSE SubtreeLeaves(2 * i + 1) \cup SubtreeLeaves(2 * i + 2)

LeafTriangles(l) ==
    { tree.leafTris[k] :
        k \in tree.leafs[l].triIndex ..
              (tree.leafs[l].triIndex + tree.leafs[l].triCount - 1) }

\* Every vertex position of every triangle held by the leaves below node i.
SubtreeVerts(i) ==
    { vtxs[tree.tris[t][c]] :
        t \in UNION { LeafTriangles(l) : l \in SubtreeLeaves(i) },
        c \in 1..3 }

SetMin(S) == CHOOSE x \in S : \A y \in S : x <= y
SetMax(S) == CHOOSE x \in S : \A y \in S : x >= y
ExtentMin(P) == [a \in 1..3 |-> SetMin({ p[a] : p \in P })]
ExtentMax(P) == [a \in 1..3 |-> SetMax({ p[a] : p \in P })]

\* The smallest power of two L with L * K >= T, found by search.
SmallestLeafCount(T) ==
    CHOOSE L \in { 1, 2, 4, 8, 16 } :
        /\ L * RJM_MAX_RAYTREE_LEAF_TRIS >= T
        /\ \A M \in { 1, 2, 4, 8, 16 } :
              M * RJM_MAX_RAYTREE_LEAF_TRIS >= T => L <= M

\* C4: after rjm_buildraytree, leafTris is a permutation of 0..T-1 and the
\* leaves' ranges [triIndex, triIndex + triCount) are disjoint, contiguous
\* in leaf order and cover [0, T), so every triangle is in exactly one leaf.
C4_BuildTotality ==
    pc = "built" =>
        /\ DOMAIN tree.leafTris = 0..(tree.triCount - 1)
        /\ \A t \in 0..(tree.triCount - 1) :
              Cardinality({ k \in DOMAIN tree.leafTris : tree.leafTris[k] = t }) = 1
        /\ DOMAIN tree.leafs = 0..(LeafCount - 1)
        /\ tree.leafs[0].triIndex = 0
        /\ \A l \in 0..(LeafCount - 1) : tree.leafs[l].triCount >= 0
        /\ \A l \in 0..(LeafCount - 2) :
              tree.leafs[l + 1].triIndex =
                  tree.leafs[l].triIndex + tree.leafs[l].triCount
        /\ tree.leafs[LeafCount - 1].triIndex
              + tree.leafs[LeafCount - 1].triCount = tree.triCount
        /\ \A t \in 0..(tree.triCount - 1) :
              Cardinality({ l \in 0..(LeafCount - 1) : t \in LeafTriangles(l) }) = 1

\* A build of MaxTris triangles over four leaves whose quickselect moved
\* at least one triangle.
C4_Witness ==
    /\ pc = "built"
    /\ tree.triCount = MaxTris
    /\ LeafCount = 4
    /\ \E k \in DOMAIN tree.leafTris : tree.leafTris[k] # k

\* C5 as claimed: for every T >= 0 every leaf has triCount in [1, K].
C5_Claimed ==
    pc = "built" =>
        \A l \in 0..(LeafCount - 1) :
            /\ tree.leafs[l].triCount >= 1
            /\ tree.leafs[l].triCount <= RJM_MAX_RAYTREE_LEAF_TRIS

\* C5 as amended: the tree has L leaves, L the smallest power of two with
\* L * K >= T, no assert of the build fails, every leaf has triCount <= K,
\* and every leaf has triCount >= 1 when T >= 1; T = 0 builds one empty leaf.
C5_LeafCounts ==
    pc = "built" =>
        /\ LeafCount = SmallestLeafCount(tree.triCount)
        /\ tree.asserts
        /\ \A l \in 0..(LeafCount - 1) :
              /\ tree.leafs[l].triCount <= RJM_MAX_RAYTREE_LEAF_TRIS
              /\ tree.triCount >= 1 => tree.leafs[l].triCount >= 1
        /\ tree.triCount = 0 =>
              LeafCount = 1 /\ tree.leafs[0].triCount = 0

\* A build over four leaves, with leaves of three and of two triangles.
C5_Witness ==
    /\ pc = "built"
    /\ LeafCount = 4
    /\ \E l \in 0..3 : tree.leafs[l].triCount = 3
    /\ \E l \in 0..3 : tree.leafs[l].triCount = 2

\* C6: every internal node's box is exactly the componentwise min and max
\* over the vertices of the triangles in the leaves of its subtree, which
\* is also the union of the extents of its two children.
C6_BoxTight ==
    pc = "built" =>
        \A i \in 0..(tree.firstLeaf - 1) :
            /\ tree.nodes[i].bmin = ExtentMin(SubtreeVerts(i))
            /\ tree.nodes[i].bmax = ExtentMax(SubtreeVerts(i))
            /\ \A p \in SubtreeVerts(i) : \A a \in 1..3 :
                  tree.nodes[i].bmin[a] <= p[a] /\ p[a] <= tree.nodes[i].bmax[a]
            /\ tree.nodes[i].bmin =
                  VecMin(ExtentMin(SubtreeVerts(2 * i + 1)),
                         ExtentMin(SubtreeVerts(2 * i + 2)))
            /\ tree.nodes[i].bmax =
                  VecMax(ExtentMax(SubtreeVerts(2 * i + 1)),
                         ExtentMax(SubtreeVerts(2 * i + 2)))

\* A three-node tree whose root box is strictly larger than both children's.
C6_Witness ==
    /\ pc = "built"
    /\ tree.firstLeaf = 3
    /\ tree.nodes[0] # tree.nodes[1]
    /\ tree.nodes[0] # tree.nodes[2]
    /\ tree.nodes[1] # tree.nodes[2]

\* ------------------------------------------------------------------------
\* The bleed program: a caller passes one pixel buffer to rjm_texbleed.
\* Pixel formats: alpha offset, pixel stride, padding bytes ending a row.
Formats ==
    { [ac |-> 0, pixstride |-> 2, pad |-> 1],
      [ac |-> 3, pixstride |-> 4, pad |-> 0] }

PadByte == 200
Alphas == { 0, BLEED_THRESHOLD, BLEED_THRESHOLD + 1 }

\* The buffer of a w x h image whose pixel k = y * w + x has alpha al[k];
\* every colour byte of pixel k holds 1 + k, so that it names its pixel.
MkPixels(w, h, f, al) ==
    LET rowstride == w * f.pixstride + f.pad
    IN  [b \in 0..(h * rowstride - 1) |->
           LET y == b \div rowstride
               r == b % rowstride
               x == r \div f.pixstride
               n == r % f.pixstride
           IN  IF x >= w THEN PadByte
               ELSE IF n = f.ac THEN al[y * w + x] ELSE 1 + (y * w + x)]

MkImg(w, h, f) ==
    [w |-> w, h |-> h, ac |-> f.ac, pixstride |-> f.pixstride,
     rowstride |-> w * f.pixstride + f.pad]

\* Every image of at most MaxPixels pixels with alphas 0, 128, 129.
SmallDims ==
    { d \in (1..MaxPixels) \X (1..MaxPixels) : d[1] * d[2] <= MaxPixels }

\* Sparse images: BigW x BigH, alpha 0 everywhere but on a set of solid
\* pixels taken from SeedPool.
SeedPool == { << 0, 1 >>, << 1, 5 >>, << 2, 7 >>, << 13, 7 >>, << 6, 3 >> }

SparseAlpha(S) ==
    [k \in 0..(BigW * BigH - 1) |->
        IF << k % BigW, k \div BigW >> \in S THEN 255 ELSE 0]

InitBleed ==
    /\ pc = "image"
    /\ \E f \in Formats :
          \/ \E d \in SmallDims :
                \E al \in [0..(d[1] * d[2] - 1) -> Alphas] :
                    /\ img = MkImg(d[1], d[2], f)
                    /\ pixels = MkPixels(d[1], d[2], f, al)
          \/ \E S \in SUBSET SeedPool :
                    /\ img = MkImg(BigW, BigH, f)
                    /\ pixels = MkPixels(BigW, BigH, f, SparseAlpha(S))
    /\ pixels0 = pixels
    /\ storage = << >>
    /\ bleedY = 0
    /\ bleedX = 0
    /\ tree = NewTree(<< >>, 0)
    /\ IdleTrace

\* rjm_texbleed up to the sweeps: allocate and seed the grid; with no
\* solid pixel the function frees the grid and returns.
BleedSeed ==
    /\ pc = "image"
    /\ IF AnySolid(pixels, img.w, img.h, img.ac, img.pixstride, img.rowstride)
       THEN /\ storage' = SeedGrid(pixels, img.w, img.h, img.ac,
                                   img.pixstride, img.rowstride)
            /\ pc' = "pass0fwd"
       ELSE /\ storage' = << >>
            /\ pc' = "bled"
    /\ bleedY' = 0
    /\ bleedX' = 0
    /\ UNCHANGED << tree, traceVars, pixels, img, pixels0 >>

\* Pass 0, one cell of the left-to-right loop of row y.
BleedPass0Fwd ==
    /\ pc = "pass0fwd"
    /\ storage' = CompareAll(storage, GridCell(img.w + 2, bleedX, bleedY),
                             img.w + 2, Pass0Fwd)
    /\ IF bleedX + 1 < img.w
       THEN bleedX' = bleedX + 1 /\ pc' = pc
       ELSE bleedX' = img.w - 1 /\ pc' = "pass0bwd"
    /\ UNCHANGED << tree, traceVars, pixels, img, bleedY, pixels0 >>

\* Pass 0, one cell of the right-to-left loop of row y; after the last row
\* pass 1 starts at the bottom row.
BleedPass0Bwd ==
    /\ pc = "pass0bwd"
    /\ storage' = CompareAll(storage, GridCell(img.w + 2, bleedX, bleedY),
                             img.w + 2, Pass0Bwd)
    /\ IF bleedX > 0
       THEN bleedX' = bleedX - 1 /\ bleedY' = bleedY /\ pc' = pc
       ELSE IF bleedY + 1 < img.h
            THEN bleedX' = 0 /\ bleedY' = bleedY + 1 /\ pc' = "pass0fwd"
            ELSE bleedX' = img.w - 1 /\ bleedY' = img.h - 1 /\ pc' = "pass1bwd"
    /\ UNCHANGED << tree, traceVars, pixels, img, pixels0 >>

\* Pass 1, one cell of the right-to-left loop of row y.
BleedPass1Bwd ==
    /\ pc = "pass1bwd"
    /\ storage' = CompareAll(storage, GridCell(img.w + 2, bleedX, bleedY),
                             img.w + 2, Pass1Bwd)
    /\ IF bleedX > 0
       THEN bleedX' = bleedX - 1 /\ pc' = pc
       ELSE bleedX' = 0 /\ pc' = "pass1fwd"
    /\ UNCHANGED << tree, traceVars, pixels, img, bleedY, pixels0 >>

\* Pass 1, one cell of the left-to-right loop of row y; after the top row
\* the read-back starts.
BleedPass1Fwd ==
    /\ pc = "pass1fwd"
    /\ storage' = CompareAll(storage, GridCell(img.w + 2, bleedX, bleedY),
                             img.w + 2, Pass1Fwd)
    /\ IF bleedX + 1 < img.w
       THEN bleedX' = bleedX + 1 /\ bleedY' = bleedY /\ pc' = pc
       ELSE IF bleedY > 0
            THEN bleedX' = img.w - 1 /\ bleedY' = bleedY - 1 /\ pc' = "pass1bwd"
            ELSE bleedX' = 0 /\ bleedY' = 0 /\ pc' = "readback"
    /\ UNCHANGED << tree, traceVars, pixels, img, pixels0 >>

\* Read back, one pixel; after the last pixel the grid is freed and
\* rjm_texbleed returns.
BleedReadBack ==
    /\ pc = "readback"
    /\ pixels' = ReadBackPixel(pixels, storage, img.w, img.ac, img.pixstride,
                               img.rowstride, bleedX, bleedY)
    /\ IF bleedX + 1 < img.w
       THEN bleedX' = bleedX + 1 /\ bleedY' = bleedY /\ pc' = pc
                                 /\ storage' = storage
       ELSE IF bleedY + 1 < img.h
            THEN bleedX' = 0 /\ bleedY' = bleedY + 1 /\ pc' = pc
                             /\ storage' = storage
            ELSE bleedX' = 0 /\ bleedY' = 0 /\ pc' = "bled"
                             /\ storage' = << >>
    /\ UNCHANGED << tree, traceVars, img, pixels0 >>

NextBleed ==
    \/ BleedSeed
    \/ BleedPass0Fwd
    \/ BleedPass0Bwd
    \/ BleedPass1Bwd
    \/ BleedPass1Fwd
    \/ BleedReadBack

SpecBleed == InitBleed /\ [][NextBleed]_vars

\* ------------------------------------------------------------------------
\* Properties of the bled image.
Pixels == (0..(img.w - 1)) \X (0..(img.h - 1))
PixOf(q) == PixAt(q[1], q[2], img.pixstride, img.rowstride)
Alpha0(q) == pixels0[PixOf(q) + img.ac]
Solid0 == { q \in Pixels : Alpha0(q) > BLEED_THRESHOLD }
Dist2(p, q) == (p[1] - q[1]) * (p[1] - q[1]) + (p[2] - q[2]) * (p[2] - q[2])
Nearest0(p) == { q \in Solid0 : \A r \in Solid0 : Dist2(p, q) <= Dist2(p, r) }

\* The non-alpha bytes of pixel p now are those pixel q had at the call.
CopiedFrom(p, q) ==
    \A n \in 0..(img.pixstride - 1) :
        n # img.ac => pixels[PixOf(p) + n] = pixels0[PixOf(q) + n]

C9_BleedFrame ==
    pc = "bled" =>
        /\ DOMAIN pixels = DOMAIN pixels0
        /\ \A p \in Pixels : \A n \in 0..(img.pixstride - 1) :
              (Alpha0(p) # 0 \/ n = img.ac) =>
                  pixels[PixOf(p) + n] = pixels0[PixOf(p) + n]
        /\ \A b \in DOMAIN pixels0 :
              (b % img.rowstride) >= img.w * img.pixstride =>
                  pixels[b] = pixels0[b]

\* A bled image in which a transparent pixel changed colour next to a
\* pixel of alpha 128 and a solid pixel.
C9_Witness ==
    /\ pc = "bled"
    /\ \E p \in Pixels : Alpha0(p) = 0 /\ ~CopiedFrom(p, p)
    /\ \E p \in Pixels : Alpha0(p) = BLEED_THRESHOLD
    /\ \E p \in Pixels : Alpha0(p) > BLEED_THRESHOLD

\* ------------------------------------------------------------------------
\* rjm_raytrace: the packet's lane arrays.
\* ncur left as it is, in place of (ncur + 3) & ~3
RoundUp4_None(n) == n

\* ncur = (ncur + 3) & ~3
RoundUp4(n) == ((n + 3) \div 4) * 4

\* Lines 262-292: copy npacket rays from rays[base ..] into the lanes, then
\* pad to a multiple of 4 with copies of the last lane whose rayidx is -1.
LoadPacket(rs, b, npacket) ==
    LET lanes  == 0..(RoundUp4(npacket) - 1)
        src(n) == rs[b + (IF n < npacket THEN n ELSE npacket - 1)]
    IN  [rx |-> [n \in lanes |-> src(n).org[1]],
         ry |-> [n \in lanes |-> src(n).org[2]],
         rz |-> [n \in lanes |-> src(n).org[3]],
         dx |-> [n \in lanes |-> src(n).dir[1]],
         dy |-> [n \in lanes |-> src(n).dir[2]],
         dz |-> [n \in lanes |-> src(n).dir[3]],
         ix |-> [n \in lanes |-> FInv(src(n).dir[1])],
         iy |-> [n \in lanes |-> FInv(src(n).dir[2])],
         iz |-> [n \in lanes |-> FInv(src(n).dir[3])],
         maxt |-> [n \in lanes |-> src(n).t],
         rayidx |-> [n \in lanes |-> IF n < npacket THEN b + n ELSE -1]]

\* Lines 270-279: the outputs of the packet's rays are reset.
ResetOutputs(rs, b, nx) ==
    [r \in DOMAIN rs |->
        IF r >= b /\ r < nx
        THEN [rs[r] EXCEPT !.visibility = Rat(1), !.hit = -1,
                           !.u = Rat(0), !.v = Rat(0)]
        ELSE rs[r]]

LaneOrg(p, n) == << p.rx[n], p.ry[n], p.rz[n] >>
LaneDir(p, n) == << p.dx[n], p.dy[n], p.dz[n] >>
LaneInv(p, n) == << p.ix[n], p.iy[n], p.iz[n] >>

\* The swap of lines 476-487 with the rayidx line missing.
SwapLanes_KeepRayIdx(p, m, d, s) ==
    [pkt |-> [rx |-> SwapAt(p.rx, d, s), ry |-> SwapAt(p.ry, d, s),
              rz |-> SwapAt(p.rz, d, s), dx |-> SwapAt(p.dx, d, s),
              dy |-> SwapAt(p.dy, d, s), dz |-> SwapAt(p.dz, d, s),
              ix |-> SwapAt(p.ix, d, s), iy |-> SwapAt(p.iy, d, s),
              iz |-> SwapAt(p.iz, d, s), maxt |-> SwapAt(p.maxt, d, s),
              rayidx |-> p.rayidx],
     mask |-> SwapAt(m, d, s)]

\* Lines 476-487: lanes d and s trade places in every lane array and in
\* out_mask.
SwapLanes(p, m, d, s) ==
    [pkt |-> [rx |-> SwapAt(p.rx, d, s), ry |-> SwapAt(p.ry, d, s),
              rz |-> SwapAt(p.rz, d, s), dx |-> SwapAt(p.dx, d, s),
              dy |-> SwapAt(p.dy, d, s), dz |-> SwapAt(p.dz, d, s),
              ix |-> SwapAt(p.ix, d, s), iy |-> SwapAt(p.iy, d, s),
              iz |-> SwapAt(p.iz, d, s), maxt |-> SwapAt(p.maxt, d, s),
              rayidx |-> SwapAt(p.rayidx, d, s)],
     mask |-> SwapAt(m, d, s)]

\* Lines 472-493: one turn of the re-ordering loop.  s holds the lanes,
\* out_mask (TRUE = hit), the loop index and the count.
PartitionStep(s) ==
    IF s.nhit >= s.n
    THEN s
    ELSE IF ~s.mask[s.nhit]
         THEN LET sw == SwapLanes(s.pkt, s.mask, s.nhit, s.n - 1)
              IN  [pkt |-> sw.pkt, mask |-> sw.mask, nhit |-> s.nhit,
                   n |-> s.n - 1]
         ELSE [s EXCEPT !.nhit = s.nhit + 1]

\* k turns of the loop, one after the other: the first half of the turns,
\* then the rest from the state h they leave.
RECURSIVE PartitionTurns(_, _)
PartitionTurns(s, k) ==
    IF k <= 0 THEN s
    ELSE IF k = 1 THEN PartitionStep(s)
    ELSE CHOOSE t \in { PartitionTurns(h, k - k \div 2) :
                          h \in { PartitionTurns(s, k \div 2) } } : TRUE

\* Lines 470-494: re-order rays into ones that hit and ones that didn't.
\* m is out_mask (TRUE = hit).  Every turn brings nhit and the count one
\* closer, so the loop ends after n - nhit turns.  Returns the lanes and
\* the count of hits.
PartitionLanes(p, m, nhit, n) ==
    LET s == PartitionTurns([pkt |-> p, mask |-> m, nhit |-> nhit, n |-> n],
                            n - nhit)
    IN  [pkt |-> s.pkt, ncur |-> s.n]

\* Lines 434-465: out_mask of the slab test over lanes [0, n).
BoxMask(node, p, n) ==
    [i \in 0..(n - 1) |->
        SlabIsect(node, LaneOrg(p, i), LaneInv(p, i), p.maxt[i])]

\* Lines 312-382: out_mask, out_t, out_u, out_v of one triangle over
\* lanes [0, n).
TriMask(tr, triIdx, p, n) ==
    LET tri == tr.tris[triIdx]
    IN  [i \in 0..(n - 1) |->
            TriIsect(vtxs[tri[1]], vtxs[tri[2]], vtxs[tri[3]],
                     LaneOrg(p, i), LaneDir(p, i), p.maxt[i])]

\* The caller's filter functions: opacity in [0, 1] from the arguments.
FilterFn(id, triIdx, rayIdx, t, u, v) ==
    CASE id = 1 -> << 1, 2 >>
      [] id = 2 -> << (triIdx + rayIdx) % 3, 2 >>
      [] OTHER  -> IF RLe(<< 1, 2 >>, u) THEN Rat(1) ELSE Rat(0)

\* (opacity - 1): the operands of line 399 exchanged.
Transmit_Negated(opacity) == << opacity[1] - opacity[2], opacity[2] >>

\* (1 - opacity) of line 399
Transmit(opacity) == ROneMinus(opacity)

\* Lines 389-414 for lane n.  st holds the ray array, maxt and the history
\* of filter calls; is is the lane's out_mask / out_t / out_u / out_v.
LaneHit(st, n, r, is, triIdx, cut, flt) ==
    IF ~(is.isect /\ r >= 0)
    THEN st
    ELSE IF ~RLt(is.t, st.rays[r].t)
    THEN st
    ELSE
      LET opacity == IF flt.null THEN Rat(1)
                     ELSE FilterFn(flt.id, triIdx, r, is.t, is.u, is.v)
          log2    == IF flt.null THEN st.log
                     ELSE Append(st.log, [tri |-> triIdx, ray |-> r])
          vis     == RMul(st.rays[r].visibility, Transmit(opacity))
      IN  IF cut[1] >= 0
          THEN [rays |-> [st.rays EXCEPT ![r].visibility = vis],
                maxt |-> IF RLe(vis, cut)
                         THEN [st.maxt EXCEPT ![n] = Rat(0)]
                         ELSE st.maxt,
                log  |-> log2]
          ELSE IF RLe(<< 1, 2 >>, opacity)
               THEN [rays |-> [st.rays EXCEPT ![r].t = is.t,
                                              ![r].u = is.u,
                                              ![r].v = is.v,
                                              ![r].hit = triIdx,
                                              ![r].visibility = Rat(0)],
                     maxt |-> [st.maxt EXCEPT ![n] = is.t],
                     log  |-> log2]
               ELSE [st EXCEPT !.log = log2]

\* Lines 387-416: the loop over lanes [0, ncur) after one triangle test.
\* Lanes [n, nc) are taken in rising order: the lower half, then the upper
\* half from the state h the lower half leaves.
RECURSIVE HitLoop(_, _, _, _, _, _, _, _)
HitLoop(st, n, nc, rayidx, m, triIdx, cut, flt) ==
    IF n >= nc
    THEN st
    ELSE IF nc - n = 1
    THEN LaneHit(st, n, rayidx[n], m[n], triIdx, cut, flt)
    ELSE LET mid == (n + nc) \div 2
         IN  CHOOSE t \in
                 { HitLoop(h, mid, nc, rayidx, m, triIdx, cut, flt) :
                     h \in { HitLoop(st, n, mid, rayidx, m, triIdx,
                                      cut, flt) } } : TRUE

\* nodeIdx*2+2 in place of nodeIdx*2+1
LeftChild_Right(n) == n * 2 + 2

\* nodeIdx*2+1 pushed in place of nodeIdx*2+2
RightChild_Left(n) == n * 2 + 1

\* Lines 499-501: the child pushed and the child descended into.
LeftChild(n) == n * 2 + 1
RightChild(n) == n * 2 + 2

\* The rays held by lanes [0, n), and the number of padded lanes among them.
LaneRays(p, n) == { p.rayidx[i] : i \in 0..(n - 1) } \ { -1 }
LanePads(p, n) == Cardinality({ i \in 0..(n - 1) : p.rayidx[i] = -1 })

\* ------------------------------------------------------------------------
\* The trace program: a caller builds a tree over a scene and passes one
\* batch of rays to rjm_raytrace.
MaxRays == 6          \* rays of a batch

TracePool ==
    << Tri(<< 0, 0, 0 >>, << 4, 0, 0 >>, << 0, 4, 0 >>),
       Tri(<< 0, 0, 0 >>, << 0, 4, 0 >>, << 4, 0, 0 >>),
       Tri(<< 0, 0, 1 >>, << 4, 0, 1 >>, << 0, 4, 1 >>),
       Tri(<< 4, 0, 0 >>, << 8, 0, 0 >>, << 4, 4, 0 >>),
       Tri(<< 4, 0, 1 >>, << 8, 0, 1 >>, << 4, 4, 1 >>),
       Tri(<< 0, 0, 0 >>, << 4, 0, 0 >>, << 0, 4, 2 >>),
       Tri(<< 0, 0, 2 >>, << 4, 0, 2 >>, << 0, 4, 2 >>),
       Tri(<< 4, 0, 2 >>, << 8, 0, 2 >>, << 4, 4, 2 >>) >>

\* The first T triangles of the pool, read cyclically from slot a.
TraceScene(T, a) ==
    [t \in 0..(T - 1) |-> TracePool[((a + t) % Len(TracePool)) + 1]]

TraceCounts == { 0, 1, 3, 5, MaxTris }

\* A ray as the caller passes it: org, dir, t set, the outputs stale.
MkRay(org, dir, t) ==
    [org |-> org, dir |-> dir, t |-> Rat(t),
     hit |-> 0, u |-> Rat(1), v |-> Rat(1), visibility |-> Rat(0)]

RayPool ==
    << MkRay(<< 1, 1, 3 >>, << 0, 0, -1 >>, 10),
       MkRay(<< 5, 1, 3 >>, << 0, 0, -1 >>, 10),
       MkRay(<< 0, 0, 3 >>, << 0, 0, -1 >>, 10),
       MkRay(<< 1, 1, 0 >>, << 0, 0, 1 >>, 10),
       MkRay(<< 1, 1, 3 >>, << 0, 0, -1 >>, 2),
       MkRay(<< 7, 3, 3 >>, << 0, 0, -1 >>, 10),
       MkRay(<< 1, 1, 3 >>, << 1, 0, -1 >>, 10),
       MkRay(<< -3, -3, 3 >>, << 0, 0, -1 >>, 10) >>

\* n rays of the pool, read cyclically from slot a.
Batch(n, a) == [r \in 0..(n - 1) |-> RayPool[((a + r) % Len(RayPool)) + 1]]

Cutoffs == { Rat(RJM_RAYTRACE_FIRSTHIT), Rat(0), << 1, 2 >> }

Filters == { [null |-> TRUE, id |-> 0] } \cup
           { [null |-> FALSE, id |-> i] : i \in 1..3 }

\* The calls: << T, scene slot, nrays, ray slot >>.  Every small batch on
\* every scene, and batches of more than one packet on a root-leaf tree and
\* on the largest tree.
TraceInputs ==
    (TraceCounts \X { 0, 3 } \X (0..MaxRays) \X (0..(Len(RayPool) - 1)))
    \cup { << T, 0, RJM_PACKET_SIZE + 1, 0 >> : T \in { 1, MaxTris } }

InitTrace ==
    /\ pc = "packet"
    /\ \E i \in TraceInputs :
          /\ tree = rjm_buildraytree(NewTree(TraceScene(i[1], i[2]), i[1]))
          /\ rays = Batch(i[3], i[4])
    /\ rays0 = rays
    /\ cutoff \in Cutoffs
    /\ filter \in Filters
    /\ pkt = << >> /\ stack = << >> /\ pushed = << >> /\ filterLog = << >>
    /\ entered = << >>
    /\ base = 0 /\ next = 0 /\ nodeIdx = 0 /\ ncur = 0
    /\ idxs = 0 /\ triCount = 0
    /\ IdleBleed

nrays == Cardinality(DOMAIN rays)

\* Lines 254-300: the next packet is loaded and the terminator pushed.
StartPacket ==
    /\ pc = "packet"
    /\ base < nrays
    /\ LET npacket == Min2(nrays - base, RJM_PACKET_SIZE)
       IN  /\ next' = base + npacket
           /\ pkt' = LoadPacket(rays, base, npacket)
           /\ rays' = ResetOutputs(rays, base, base + npacket)
           /\ ncur' = RoundUp4(npacket)
    /\ stack' = << << 0, 0 >> >>
    /\ pushed' = << [rays |-> {}, pads |-> 0, passed |-> {}] >>
    /\ nodeIdx' = 0
    /\ entered' = << 0 >>
    /\ pc' = "loop"
    /\ UNCHANGED << tree, cutoff, filter, base, idxs, triCount, rays0,
                    filterLog, bleedVars >>

\* Lines 508-513: pull a new node off the stack; the terminator ends the
\* packet.
Pop ==
    LET top == stack[Len(stack)]
    IN  /\ ncur' = top[2]
        /\ nodeIdx' = top[1]
        /\ stack' = SubSeq(stack, 1, Len(stack) - 1)
        /\ pushed' = SubSeq(pushed, 1, Len(pushed) - 1)
        /\ IF top[1] # 0
           THEN pc' = "loop" /\ base' = base /\ entered' = Append(entered, top[1])
           ELSE pc' = "packet" /\ base' = next /\ entered' = entered

\* Lines 306-311: the node is a leaf.
LeafEnter ==
    /\ pc = "loop"
    /\ nodeIdx - tree.firstLeaf >= 0
    /\ idxs' = tree.leafs[nodeIdx - tree.firstLeaf].triIndex
    /\ triCount' = tree.leafs[nodeIdx - tree.firstLeaf].triCount
    /\ pc' = "leaf"
    /\ UNCHANGED << tree, rays, cutoff, filter, pkt, stack, base, next,
                    nodeIdx, ncur, rays0, filterLog, pushed, entered,
                    bleedVars >>

\* Lines 312-417: one triangle of the leaf against every active lane.
LeafTri ==
    /\ pc = "leaf"
    /\ triCount > 0
    /\ LET triIdx == tree.leafTris[idxs]
           m      == TriMask(tree, triIdx, pkt, ncur)
           st     == IF \E i \in 0..(ncur - 1) : m[i].isect
                     THEN HitLoop([rays |-> rays, maxt |-> pkt.maxt,
                                   log |-> filterLog],
                                  0, ncur, pkt.rayidx, m, triIdx,
                                  cutoff, filter)
                     ELSE [rays |-> rays, maxt |-> pkt.maxt, log |-> filterLog]
       IN  /\ rays' = st.rays
           /\ pkt' = [pkt EXCEPT !.maxt = st.maxt]
           /\ filterLog' = st.log
    /\ idxs' = idxs + 1
    /\ triCount' = triCount - 1
    /\ UNCHANGED << pc, tree, cutoff, filter, stack, base, next, nodeIdx,
                    ncur, rays0, pushed, entered, bleedVars >>

\* Line 312 with triCount exhausted, then lines 508-513.
LeafExit ==
    /\ pc = "leaf"
    /\ triCount = 0
    /\ Pop
    /\ UNCHANGED << tree, rays, cutoff, filter, pkt, next, idxs, triCount,
                    rays0, filterLog, bleedVars >>

\* Lines 420-504: some lane hits the node's box; the lanes are partitioned
\* and the left child is entered with the right child stacked.
NodeDescend ==
    /\ pc = "loop"
    /\ nodeIdx - tree.firstLeaf < 0
    /\ LET m == BoxMask(tree.nodes[nodeIdx], pkt, ncur)
       IN  /\ { i \in 0..(ncur - 1) : m[i] } # {}
           /\ LET part == PartitionLanes(pkt, m, 0, ncur)
                  n    == RoundUp4(part.ncur)
              IN  /\ pkt' = part.pkt
                  /\ ncur' = n
                  /\ stack' = Append(stack, << RightChild(nodeIdx), n >>)
                  /\ pushed' = Append(pushed,
                        [rays   |-> LaneRays(part.pkt, n),
                         pads   |-> LanePads(part.pkt, n),
                         passed |-> { pkt.rayidx[i] :
                                        i \in { j \in 0..(ncur - 1) : m[j] } }
                                    \ { -1 }])
    /\ nodeIdx' = LeftChild(nodeIdx)
    /\ entered' = Append(entered, LeftChild(nodeIdx))
    /\ UNCHANGED << pc, tree, rays, cutoff, filter, base, next, idxs,
                    triCount, rays0, filterLog, bleedVars >>

\* Lines 420-466 with no lane hitting the box, then lines 508-513.
NodeMiss ==
    /\ pc = "loop"
    /\ nodeIdx - tree.firstLeaf < 0
    /\ LET m == BoxMask(tree.nodes[nodeIdx], pkt, ncur)
       IN  \A i \in 0..(ncur - 1) : ~m[i]
    /\ Pop
    /\ UNCHANGED << tree, rays, cutoff, filter, pkt, next, idxs, triCount,
                    rays0, filterLog, bleedVars >>

\* Line 254 with base >= nrays: rjm_raytrace returns.
Return ==
    /\ pc = "packet"
    /\ base >= nrays
    /\ pc' = "done"
    /\ UNCHANGED << treeVars, traceVars, bleedVars >>

NextTrace ==
    \/ StartPacket
    \/ LeafEnter
    \/ LeafTri
    \/ LeafExit
    \/ NodeDescend
    \/ NodeMiss
    \/ Return

SpecTrace == InitTrace /\ [][NextTrace]_vars

\* The steps that test lanes against a triangle or a box, and the places
\* where one of them can be taken.
LaneStep == LeafTri \/ NodeDescend \/ NodeMiss

AtLaneStep ==
    \/ pc = "leaf" /\ triCount > 0
    \/ pc = "loop" /\ nodeIdx - tree.firstLeaf < 0

\* rjm_raytrace runs on one thread from entry to return: a step that can be
\* taken is taken.  For LaneStep the weak fairness condition is written out
\* with AtLaneStep as its enabling condition.
SpecTraceFair ==
    /\ SpecTrace
    /\ WF_vars(StartPacket) /\ WF_vars(LeafEnter)
    /\ WF_vars(LeafExit) /\ WF_vars(Return)
    /\ ([]<>(~AtLaneStep) \/ []<><<LaneStep>>_vars)

\* ------------------------------------------------------------------------
\* Properties of rjm_raytrace.
FirstHitMode == cutoff[1] < 0

\* The rays of the packets loaded so far.
Loaded == { r \in DOMAIN rays : r < (IF pc = "packet" THEN base ELSE next) }

\* The Moller-Trumbore test of triangle k against ray r as it was passed in.
InputIsect(k, r) ==
    TriIsect(vtxs[tree.tris[k][1]], vtxs[tree.tris[k][2]],
             vtxs[tree.tris[k][3]], rays0[r].org, rays0[r].dir, rays0[r].t)

\* The opacity the filter gives the intersection of triangle k and ray r.
InputOpacity(k, r) ==
    IF filter.null THEN Rat(1)
    ELSE FilterFn(filter.id, k, r, InputIsect(k, r).t, InputIsect(k, r).u,
                  InputIsect(k, r).v)

\* The triangles with a valid intersection (u >= 0, u <= 1, v >= 0,
\* u + v <= 1, 0 <= t <= t_max) of opacity >= 0.5.
ValidHits(r) ==
    { k \in 0..(tree.triCount - 1) :
        InputIsect(k, r).isect /\ RLe(<< 1, 2 >>, InputOpacity(k, r)) }

\* C1 (as stated): in first-hit mode, when rjm_raytrace has returned, every
\* ray's t is the minimum t over the triangles with a valid intersection
\* of opacity >= 0.5 and hit is a triangle achieving it; with no such
\* triangle t keeps its input value, hit is -1 and visibility is 1.
C1_Claimed ==
    (pc = "done" /\ FirstHitMode) =>
        \A r \in DOMAIN rays :
            IF ValidHits(r) = {}
            THEN /\ rays[r].hit = -1
                 /\ REq(rays[r].t, rays0[r].t)
                 /\ REq(rays[r].visibility, Rat(1))
            ELSE /\ rays[r].hit \in ValidHits(r)
                 /\ REq(rays[r].t, InputIsect(rays[r].hit, r).t)
                 /\ \A k \in ValidHits(r) :
                        RLe(rays[r].t, InputIsect(k, r).t)

\* The number of filter calls made for ray r so far.
FilterCalls(log, r) ==
    Cardinality({ i \in 1..Len(log) : log[i].ray = r })

\* C2 (as stated): in visibility mode, once a ray's visibility is at or
\* below cutoff, no later step of the call invokes the filter for the ray
\* or changes its visibility.
C2_Claimed ==
    [][ (~FirstHitMode /\ pc \in { "loop", "leaf" }) =>
          \A r \in Loaded :
              RLe(rays[r].visibility, cutoff) =>
                  /\ REq(rays'[r].visibility, rays[r].visibility)
                  /\ FilterCalls(filterLog', r) = FilterCalls(filterLog, r)
      ]_vars

\* The position of triangle k in the leaf-triangle permutation, and the
\* leaf slot holding a position.
PosOf(k) == CHOOSE p \in DOMAIN tree.leafTris : tree.leafTris[p] = k
LeafOfPos(p) ==
    CHOOSE l \in DOMAIN tree.leafs :
        /\ tree.leafs[l].triIndex <= p
        /\ p < tree.leafs[l].triIndex + tree.leafs[l].triCount

\* C3: the filter calls of one ray are made at strictly increasing positions
\* of the leaf-triangle permutation (so leaf slots never decrease and no
\* (ray, triangle) pair is passed twice), and every call is for a ray index
\* of the batch, never -1.
C3_FilterOrder ==
    /\ \A i \in 1..Len(filterLog) :
          /\ filterLog[i].ray \in DOMAIN rays
          /\ filterLog[i].tri \in 0..(tree.triCount - 1)
    /\ \A i, j \in 1..Len(filterLog) :
          (i < j /\ filterLog[i].ray = filterLog[j].ray) =>
              /\ PosOf(filterLog[i].tri) < PosOf(filterLog[j].tri)
              /\ LeafOfPos(PosOf(filterLog[i].tri))
                     <= LeafOfPos(PosOf(filterLog[j].tri))
              /\ filterLog[i].tri # filterLog[j].tri

\* C3 witness: a finished call with padded lanes in which one ray had the
\* filter called in two different leaves and twice inside one leaf.
C3_Witness ==
    /\ pc = "done"
    /\ nrays % 4 # 0
    /\ \E i, j, k \in 1..Len(filterLog) :
          /\ i < j /\ j < k
          /\ filterLog[i].ray = filterLog[j].ray
          /\ filterLog[j].ray = filterLog[k].ray
          /\ \E a, b \in { i, j, k } :
                LeafOfPos(PosOf(filterLog[a].tri))
                    # LeafOfPos(PosOf(filterLog[b].tri))
          /\ \E a, b \in { i, j, k } :
                /\ a # b
                /\ LeafOfPos(PosOf(filterLog[a].tri))
                     = LeafOfPos(PosOf(filterLog[b].tri))

\* C7: in visibility mode every loaded ray's visibility lies in [0, 1] at
\* every point of the call, is 1 when its packet is loaded, and no step of
\* the traversal increases it.
C7_VisibilityMonotone ==
    /\ [](~FirstHitMode =>
            \A r \in Loaded :
                /\ RLe(Rat(0), rays[r].visibility)
                /\ RLe(rays[r].visibility, Rat(1)))
    /\ [][ ~FirstHitMode =>
             /\ (pc = "packet" /\ pc' = "loop") =>
                    \A r \in base..(next' - 1) :
                        REq(rays'[r].visibility, Rat(1))
             /\ pc \in { "loop", "leaf" } =>
                    \A r \in DOMAIN rays :
                        RLe(rays'[r].visibility, rays[r].visibility)
         ]_vars

\* C7 witness: a finished visibility-mode call in which a ray's visibility
\* was lowered twice and stayed positive, next to a ray that is fully
\* shadowed and a ray that saw nothing.
C7_Witness ==
    /\ pc = "done"
    /\ ~FirstHitMode
    /\ \E r \in DOMAIN rays :
          /\ FilterCalls(filterLog, r) >= 2
          /\ RLt(Rat(0), rays[r].visibility)
          /\ RLt(rays[r].visibility, << 1, 2 >>)
    /\ \E r \in DOMAIN rays : REq(rays[r].visibility, Rat(0))
    /\ \E r \in DOMAIN rays : REq(rays[r].visibility, Rat(1))

\* One lane across the lane arrays.
Lane(p, n) ==
    << LaneOrg(p, n), LaneDir(p, n), LaneInv(p, n), p.maxt[n], p.rayidx[n] >>

\* Lane n carries the data of ray r.
LaneCarries(n, r) ==
    /\ LaneOrg(pkt, n) = rays0[r].org
    /\ LaneDir(pkt, n) = rays0[r].dir
    /\ LaneInv(pkt, n) = << FInv(rays0[r].dir[1]), FInv(rays0[r].dir[2]),
                            FInv(rays0[r].dir[3]) >>
    /\ IF FirstHitMode
       THEN REq(pkt.maxt[n], rays[r].t)
       ELSE \/ pkt.maxt[n] = rays0[r].t
            \/ pkt.maxt[n] = Rat(0) /\ RLe(rays[r].visibility, cutoff)

\* C10: during a packet's traversal every real ray of the packet sits in
\* exactly one lane that carries its own data; lanes [0, n) of every
\* stacked entry (rightChild, n) hold the rays they held when it was
\* pushed, among them every ray that passed the parent's box test; and a
\* partition step permutes lanes [0, ncur) only, whole lanes at a time.
C10_LanePairing ==
    /\ [](pc \in { "loop", "leaf" } =>
            /\ \A r \in base..(next - 1) :
                  /\ Cardinality({ n \in DOMAIN pkt.rayidx :
                                     pkt.rayidx[n] = r }) = 1
                  /\ \A n \in DOMAIN pkt.rayidx :
                        pkt.rayidx[n] = r => LaneCarries(n, r)
            /\ \A k \in 2..Len(stack) :
                  /\ LaneRays(pkt, stack[k][2]) = pushed[k].rays
                  /\ LanePads(pkt, stack[k][2]) = pushed[k].pads
                  /\ pushed[k].passed \subseteq pushed[k].rays)
    /\ [][ (pc = "loop" /\ pc' = "loop" /\ Len(stack') > Len(stack)) =>
             /\ \A n \in DOMAIN pkt.rayidx :
                   n >= ncur => Lane(pkt', n) = Lane(pkt, n)
             /\ \A i \in 0..(ncur - 1) :
                   Cardinality({ j \in 0..(ncur - 1) :
                                   Lane(pkt', j) = Lane(pkt, i) })
                     = Cardinality({ j \in 0..(ncur - 1) :
                                       Lane(pkt, j) = Lane(pkt, i) })
         ]_vars

\* C10 witness: a right child has just been popped after a partition that
\* moved a real ray out of its first lane and shrank the active region,
\* while another entry is still stacked.
C10_Witness ==
    /\ pc = "loop"
    /\ Len(stack) >= 2
    /\ nodeIdx > 0 /\ nodeIdx % 2 = 0
    /\ ncur < Cardinality(DOMAIN pkt.rayidx)
    /\ \E n \in 0..(ncur - 1) :
          pkt.rayidx[n] >= 0 /\ pkt.rayidx[n] # base + n

\* ------------------------------------------------------------------------
\* Shape of the implicit tree.
ParentOf(n) == (n - 1) \div 2

\* Node n lies in the subtree rooted at node a.
RECURSIVE InSubtree(_, _)
InSubtree(n, a) ==
    IF n = a THEN TRUE
    ELSE IF n <= a THEN FALSE
    ELSE InSubtree(ParentOf(n), a)

\* The level of node n, the root being at level 0.
RECURSIVE Depth(_)
Depth(n) == IF n <= 0 THEN 0 ELSE 1 + Depth(ParentOf(n))

IsRightChild(n) == n > 0 /\ n % 2 = 0

\* C11: rjm_raytrace terminates.  Within a packet no node is entered twice;
\* a stacked right child has not been entered yet and the node in hand lies
\* in its left sibling's subtree, and once a right child has been entered
\* no node of its left sibling's subtree is entered again; the traversal
\* loop is left exactly by the step that pops the (0, 0) terminator, which
\* moves base to next; a packet starts only while rays remain and takes the
\* next min(nrays - base, RJM_PACKET_SIZE) rays; the call has returned only
\* with base = nrays, and it does return.
C11_Termination ==
    /\ [](pc \in { "loop", "leaf" } =>
            /\ \A i, j \in 1..Len(entered) :
                  i < j =>
                      /\ entered[i] # entered[j]
                      /\ IsRightChild(entered[i]) =>
                            ~InSubtree(entered[j], entered[i] - 1)
            /\ entered[Len(entered)] = nodeIdx
            /\ Len(stack) >= 1
            /\ stack[1] = << 0, 0 >>
            /\ \A k \in 2..Len(stack) :
                  /\ IsRightChild(stack[k][1])
                  /\ stack[k][1] \notin Range(entered)
                  /\ InSubtree(nodeIdx, stack[k][1] - 1))
    /\ [](pc = "done" => base = nrays)
    /\ [][ /\ pc \in { "loop", "leaf" } =>
                /\ (pc' = "packet") <=>
                       (stack = << << 0, 0 >> >> /\ stack' = << >>)
                /\ pc' = "packet" => base' = next
           /\ (pc = "packet" /\ pc' = "loop") =>
                /\ base < nrays
                /\ base' = base
                /\ next' = base + Min2(nrays - base, RJM_PACKET_SIZE)
           /\ (pc = "packet" /\ pc' = "done") => base >= nrays
       ]_vars
    /\ <>(pc = "done")

\* C11 witness: the second packet of a batch is in flight on a tree of
\* three levels, a right child has just been popped after its left sibling
\* subtree was walked, and another right child is still stacked.
C11_Witness ==
    /\ pc = "loop"
    /\ base = RJM_PACKET_SIZE
    /\ tree.firstLeaf = 3
    /\ IsRightChild(nodeIdx)
    /\ Len(stack) = 2
    /\ Len(entered) >= 4

\* ------------------------------------------------------------------------
\* The explicit stack of rjm_raytrace.
RECURSIVE Log2(_)
Log2(n) == IF n <= 1 THEN 0 ELSE 1 + Log2(n \div 2)

\* Lane count of the packet in flight after padding.
PaddedPacketSize == Cardinality(DOMAIN pkt.rayidx)

\* C12: while a packet is traversed the stack holds the (0, 0) terminator
\* at the bottom and above it right children only, at strictly increasing
\* levels none deeper than the node in hand, so it is never empty and holds
\* at most 1 + log2(firstLeaf + 1) pairs, which take no more than the
\* StackInts ints of the array; the same holds for the deepest tree an int
\* triCount allows (leafCount doubles only while leafCount * 4 < triCount).
\* The count in use and every stacked count above the terminator is a
\* multiple of 4 and at most the padded packet size, counts do not grow
\* towards the top of the stack nor from the top of the stack to the count
\* in use, and a descent hands the children a count no larger than their
\* parent's.
C12_StackBound ==
    /\ [](pc \in { "loop", "leaf" } =>
            /\ Len(stack) >= 1
            /\ stack[1] = << 0, 0 >>
            /\ \A k \in 2..Len(stack) :
                  /\ IsRightChild(stack[k][1])
                  /\ Depth(stack[k][1]) <= Depth(nodeIdx)
                  /\ k > 2 => Depth(stack[k - 1][1]) < Depth(stack[k][1])
                  /\ stack[k][2] % 4 = 0
                  /\ stack[k][2] <= PaddedPacketSize
                  /\ k > 2 => stack[k][2] <= stack[k - 1][2]
            /\ Len(stack) <= 1 + Log2(tree.firstLeaf + 1)
            /\ 2 * Len(stack) <= StackInts
            /\ ncur % 4 = 0
            /\ ncur <= PaddedPacketSize
            /\ PaddedPacketSize = RoundUp4(next - base)
            /\ Len(stack) >= 2 => ncur <= stack[Len(stack)][2])
    /\ \A d \in 0..(IntBits - 3) : 2 * (1 + d) <= StackInts
    /\ [][ (pc = "loop" /\ Len(stack') > Len(stack)) =>
                /\ ncur' <= ncur
                /\ stack'[Len(stack')][2] = ncur'
                /\ Len(stack') = Len(stack) + 1
       ]_vars

\* C12 witness: on a tree of three levels the stack is full to its bound of
\* three pairs, the deeper right child carrying a smaller count than the
\* shallower one.
C12_Witness ==
    /\ pc \in { "loop", "leaf" }
    /\ tree.firstLeaf = 3
    /\ Len(stack) = 3
    /\ stack[3][2] < stack[2][2]
    /\ ncur > 0

====
